---- MODULE Spec2Model ----
(***************************************************************************)
(* Model of the knowledge-graph store (src/app/graph_builder.py), its     *)
(* projection (src/app/visualizer.py), the recommendation engine          *)
(* (src/app/recommendations.py) and the callers in src/main.py.           *)
(*                                                                         *)
(* The store keeps two redundant representations:                          *)
(*   graph      - the networkx DiGraph (node dict, adjacency, attributes)  *)
(*   nodes_data - dict  id -> {'id','type','properties'}                   *)
(*   edges_data - list of {'source','target','relationship','weight'}      *)
(* Python dicts keep insertion order, so every dict is a sequence here.    *)
(***************************************************************************)
EXTENDS Integers, Sequences, FiniteSets, TLC

\* --------------------------------------------------------------- bounds
\* Number of calls made on one store in a run.
MaxOps == 3

\* --------------------------------------------------------------- values
\* A key that is absent from a dict (dict.get returns None for it).
None == "None"
\* The empty string: a falsy id.
Empty == ""
Truthy(x) == x # None /\ x # Empty

Ids == {"A", "B", "C"}

\* Property bags: dicts from property keys to values.
EmptyBag == [k \in {} |-> 0]

\* dict.update(new) / {**old, **new}: keys of new win, other keys of old stay.
DictUpdate(old, new) ==
  [k \in (DOMAIN old) \cup (DOMAIN new) |-> IF k \in DOMAIN new THEN new[k] ELSE old[k]]

Range(s) == { s[i] : i \in DOMAIN s }
\* ------------------------------------------------- the graph engine (nx)
\* nx.DiGraph(): node = the ids in insertion order, attr = node attribute
\* dicts ('node_type' kept apart from the other keys), succ = the successors
\* of every node in insertion order, eattr = the edge attribute dicts.
EmptyGraph ==
  [ node  |-> << >>,
    attr  |-> [n \in {} |-> 0],
    succ  |-> [n \in {} |-> 0],
    eattr |-> [e \in {} |-> 0] ]

NodeSet(G) == Range(G.node)
EdgeSet(G) == DOMAIN G.eattr

\* Mutant: adding a node that exists starts it afresh, without its edges.
MutGraphAddNodeResets(G, n, node_type, props) ==
  LET rest == Range(G.node) \ {n}
      E == { e \in DOMAIN G.eattr : e[1] # n /\ e[2] # n }
      NotN(x) == x # n
  IN  [ node  |-> IF n \in Range(G.node) THEN G.node ELSE Append(G.node, n),
        attr  |-> [m \in rest \cup {n} |->
                     IF m = n THEN [node_type |-> node_type, props |-> props]
                     ELSE G.attr[m]],
        succ  |-> [m \in rest \cup {n} |->
                     IF m = n THEN << >> ELSE SelectSeq(G.succ[m], NotN)],
        eattr |-> [e \in E |-> G.eattr[e]] ]

\* DiGraph.add_node(n, **attr): a new node gets the attributes; an existing
\* node keeps its attribute dict, which is updated with the new attributes.
GraphAddNode(G, n, node_type, props) ==
  IF n \in NodeSet(G)
  THEN [G EXCEPT !.attr[n] =
          [node_type |-> IF node_type = None THEN @.node_type ELSE node_type,
           props     |-> DictUpdate(@.props, props)]]
  ELSE [ node  |-> Append(G.node, n),
         attr  |-> [m \in NodeSet(G) \cup {n} |->
                      IF m = n THEN [node_type |-> node_type, props |-> props]
                      ELSE G.attr[m]],
         succ  |-> [m \in NodeSet(G) \cup {n} |-> IF m = n THEN << >> ELSE G.succ[m]],
         eattr |-> G.eattr ]

\* DiGraph.add_edge(u, v, **attr): either endpoint that is no node yet is
\* added with an empty attribute dict; the edge's attribute dict is created
\* or updated.
GraphAddEdge(G, u, v, relationship, weight) ==
  LET G1 == IF u \in NodeSet(G) THEN G ELSE GraphAddNode(G, u, None, EmptyBag)
      G2 == IF v \in NodeSet(G1) THEN G1 ELSE GraphAddNode(G1, v, None, EmptyBag)
      e  == << u, v >>
  IN  [ G2 EXCEPT
          !.succ[u] = IF e \in EdgeSet(G2) THEN @ ELSE Append(@, v),
          !.eattr   = [f \in EdgeSet(G2) \cup {e} |->
                         IF f = e THEN [relationship |-> relationship, weight |-> weight]
                         ELSE G2.eattr[f]] ]

\* DiGraph.remove_node(n): n and every edge into or out of n go.
GraphRemoveNode(G, n) ==
  LET rest == NodeSet(G) \ {n}
      NotN(x) == x # n
  IN  [ node  |-> SelectSeq(G.node, NotN),
        attr  |-> [m \in rest |-> G.attr[m]],
        succ  |-> [m \in rest |-> SelectSeq(G.succ[m], NotN)],
        eattr |-> [e \in { f \in EdgeSet(G) : f[1] # n /\ f[2] # n } |-> G.eattr[e]] ]

\* DiGraph.edges(): for every node in order, its out-edges in order.
RECURSIVE EdgesFrom(_, _)
EdgesFrom(G, nodes) ==
  IF nodes = << >> THEN << >>
  ELSE LET u == Head(nodes)
       IN  [i \in 1..Len(G.succ[u]) |-> << u, G.succ[u][i] >>] \o EdgesFrom(G, Tail(nodes))
GraphEdges(G) == EdgesFrom(G, G.node)

\* DiGraph.degree(n): in-degree + out-degree (a self-loop counts twice).
GraphDegree(G, n) ==
  Cardinality({ e \in EdgeSet(G) : e[1] = n }) + Cardinality({ e \in EdgeSet(G) : e[2] = n })

\* ------------------------------------------- KnowledgeGraph (the store)
\* dict.get(k, default)
Get(d, k, default) == IF k \in DOMAIN d THEN d[k] ELSE default
\* x or y
Or(x, y) == IF Truthy(x) THEN x ELSE y

\* KnowledgeGraph.__init__
NewKnowledgeGraph ==
  [ graph |-> EmptyGraph, nodes_data |-> << >>, edges_data |-> << >> ]

NodesDataKeys(kg) == { kg.nodes_data[i].id : i \in DOMAIN kg.nodes_data }
\* nodes_data[node_id]
NodesDataAt(kg, node_id) ==
  kg.nodes_data[CHOOSE i \in DOMAIN kg.nodes_data : kg.nodes_data[i].id = node_id]

\* Mutant: a second entry for a key that is present.
MutDictSetAppends(nd, entry) == Append(nd, entry)

\* nodes_data[node_id] = entry: a present key keeps its place in the dict.
DictSet(nd, entry) ==
  IF \E i \in DOMAIN nd : nd[i].id = entry.id
  THEN [i \in DOMAIN nd |-> IF nd[i].id = entry.id THEN entry ELSE nd[i]]
  ELSE Append(nd, entry)

\* add_node, line 23: self.graph.add_node(node_id, node_type=node_type, **properties)
add_node_graph(kg, node_id, node_type, properties) ==
  [kg EXCEPT !.graph = GraphAddNode(@, node_id, node_type, properties)]

\* add_node, lines 24-28: self.nodes_data[node_id] = {...}
add_node_data(kg, node_id, node_type, properties) ==
  [kg EXCEPT !.nodes_data =
     DictSet(@, [id |-> node_id, type |-> node_type, properties |-> properties])]

add_node(kg, node_id, node_type, properties) ==
  add_node_data(add_node_graph(kg, node_id, node_type, properties),
                node_id, node_type, properties)

\* Mutant: the guard looks at the source only.
MutRaisesOnSourceOnly(kg, source, target) == source \notin NodeSet(kg.graph)

\* add_edge, line 32: the guard that raises ValueError.
add_edge_raises(kg, source, target) ==
  source \notin NodeSet(kg.graph) \/ target \notin NodeSet(kg.graph)

\* add_edge, lines 38-39: the attributes of an existing edge are assigned.
add_edge_update_graph(kg, source, target, relationship, weight) ==
  [kg EXCEPT !.graph.eattr[<< source, target >>] =
     [relationship |-> relationship, weight |-> weight]]

\* Mutant: an upsert updates the graph engine and not the flat list.
MutUpdateSkipsEdgesData(kg, source, target, relationship, weight) == kg

\* add_edge, lines 41-45: the first entry of edges_data for the pair is
\* updated; no entry for the pair, nothing changes.
add_edge_update_data(kg, source, target, relationship, weight) ==
  LET ed  == kg.edges_data
      hit == { i \in DOMAIN ed : ed[i].source = source /\ ed[i].target = target }
  IN  IF hit = {} THEN kg
      ELSE LET first == CHOOSE i \in hit : \A j \in hit : i <= j
           IN  [kg EXCEPT !.edges_data[first] =
                  [source |-> source, target |-> target,
                   relationship |-> relationship, weight |-> weight]]

\* add_edge, line 48: self.graph.add_edge(source, target, ...)
add_edge_insert_graph(kg, source, target, relationship, weight) ==
  [kg EXCEPT !.graph = GraphAddEdge(@, source, target, relationship, weight)]

\* add_edge, lines 49-54: self.edges_data.append({...})
add_edge_insert_data(kg, source, target, relationship, weight) ==
  [kg EXCEPT !.edges_data =
     Append(@, [source |-> source, target |-> target,
                relationship |-> relationship, weight |-> weight])]

\* Mutant: add_edge takes the insert branch for a pair that has an edge too.
MutAddEdgeAlwaysInserts(kg, source, target, relationship, weight) ==
  IF add_edge_raises(kg, source, target) THEN kg
  ELSE add_edge_insert_data(
         add_edge_insert_graph(kg, source, target, relationship, weight),
         source, target, relationship, weight)

\* add_edge: the store after the call (unchanged when it raises).
add_edge(kg, source, target, relationship, weight) ==
  IF add_edge_raises(kg, source, target) THEN kg
  ELSE IF << source, target >> \in EdgeSet(kg.graph)
       THEN add_edge_update_data(
              add_edge_update_graph(kg, source, target, relationship, weight),
              source, target, relationship, weight)
       ELSE add_edge_insert_data(
              add_edge_insert_graph(kg, source, target, relationship, weight),
              source, target, relationship, weight)

\* Mutant: the node stays in the graph engine.
MutRemoveNodeLeavesGraph(kg, node_id) == kg

\* remove_node, line 61: self.graph.remove_node(node_id)
remove_node_graph(kg, node_id) ==
  [kg EXCEPT !.graph = GraphRemoveNode(@, node_id)]

\* remove_node, line 62: self.nodes_data.pop(node_id, None)
remove_node_data(kg, node_id) ==
  LET Other(e) == e.id # node_id
  IN  [kg EXCEPT !.nodes_data = SelectSeq(@, Other)]

\* Mutant: remove_node forgets the flat list.
MutRemoveNodeKeepsEdgesData(kg, node_id) == kg

\* remove_node, lines 64-67: edges_data without the entries that touch node_id
remove_node_edges(kg, node_id) ==
  LET Apart(e) == e.source # node_id /\ e.target # node_id
  IN  [kg EXCEPT !.edges_data = SelectSeq(@, Apart)]

remove_node(kg, node_id) ==
  IF node_id \in NodeSet(kg.graph)
  THEN remove_node_edges(remove_node_data(remove_node_graph(kg, node_id), node_id), node_id)
  ELSE kg

get_node_count(kg) == Len(kg.graph.node)
get_edge_count(kg) == Cardinality(EdgeSet(kg.graph))

\* sync_edges_data: edges_data rebuilt from the edges of the graph engine.
sync_edges_data(kg) ==
  LET es == GraphEdges(kg.graph)
  IN  [kg EXCEPT !.edges_data =
         [i \in DOMAIN es |->
            [source |-> es[i][1], target |-> es[i][2],
             relationship |-> Get(kg.graph.eattr[es[i]], "relationship", "related_to"),
             weight |-> Get(kg.graph.eattr[es[i]], "weight", 1)]]]

\* Mutant: the walks follow the edges in either direction.
MutPathsAnyDirection(G, source, target) ==
  { p \in UNION { [1..n -> NodeSet(G)] : n \in 1..Len(G.node) } :
      /\ p[1] = source /\ p[Len(p)] = target
      /\ \A i, j \in DOMAIN p : i # j => p[i] # p[j]
      /\ \A i \in 1..(Len(p) - 1) :
           << p[i], p[i + 1] >> \in EdgeSet(G) \/ << p[i + 1], p[i] >> \in EdgeSet(G) }

\* The directed walks without a repeated node from source to target.
PathsBetween(G, source, target) ==
  { p \in UNION { [1..n -> NodeSet(G)] : n \in 1..Len(G.node) } :
      /\ p[1] = source /\ p[Len(p)] = target
      /\ \A i, j \in DOMAIN p : i # j => p[i] # p[j]
      /\ \A i \in 1..(Len(p) - 1) : << p[i], p[i + 1] >> \in EdgeSet(G) }

\* nx.shortest_path(G, source, target): NodeNotFound when an endpoint is no
\* node, NetworkXNoPath when there is no path, else a path with the fewest
\* edges (the only one there is on up to three nodes; on more nodes networkx
\* returns one of them).
find_path(kg, source, target) ==
  LET G  == kg.graph
      ps == PathsBetween(G, source, target)
  IN  IF source \notin NodeSet(G) \/ target \notin NodeSet(G)
      THEN [kind |-> "raise"]
      ELSE IF ps = {} THEN [kind |-> "none"]
      ELSE [kind |-> "path",
            path |-> CHOOSE p \in ps : \A q \in ps : Len(p) <= Len(q)]

\* to_dict: 'nodes' is a new list of the node dicts of nodes_data; 'edges' IS
\* the list object self.edges_data (alias = TRUE says so: the caller's
\* data['edges'] and the store's edges_data are one object).
to_dict(kg) ==
  [ nodes |-> kg.nodes_data, edges |-> kg.edges_data, alias |-> TRUE ]

\* A snapshot that shares nothing with the store (json round trip, deepcopy,
\* or the to_dict() of another KnowledgeGraph).
Detached(data) == [data EXCEPT !.alias = FALSE]

\* load_from_dict, lines 136-142: one node entry.
load_node(kg, node_data) ==
  LET node_id == Or(Get(node_data, "id", None), Get(node_data, "node_id", None))
  IN  IF Truthy(node_id)
      THEN add_node(kg, node_id,
                    Get(node_data, "type", Get(node_data, "node_type", "concept")),
                    Get(node_data, "properties", EmptyBag))
      ELSE kg

RECURSIVE load_nodes(_, _)
load_nodes(kg, nodes) ==
  IF nodes = << >> THEN kg ELSE load_nodes(load_node(kg, Head(nodes)), Tail(nodes))

\* load_from_dict, line 148: the guard on one edge entry.
load_edge_accepts(kg, edge_data) ==
  LET source == Get(edge_data, "source", None)
      target == Get(edge_data, "target", None)
  IN  /\ Truthy(source) /\ Truthy(target)
      /\ source \in NodeSet(kg.graph) /\ target \in NodeSet(kg.graph)

\* load_from_dict, lines 146-158: one edge entry (add_edge's ValueError is caught).
load_edge(kg, edge_data) ==
  IF load_edge_accepts(kg, edge_data)
  THEN add_edge(kg, edge_data.source, edge_data.target,
                Get(edge_data, "relationship", "related_to"),
                Get(edge_data, "weight", 1))
  ELSE kg

RECURSIVE load_edges(_, _)
load_edges(kg, edges) ==
  IF edges = << >> THEN kg ELSE load_edges(load_edge(kg, Head(edges)), Tail(edges))

\* load_from_dict, lines 130-132: graph.clear(), nodes_data.clear(), edges_data.clear()
load_clear(kg) == NewKnowledgeGraph

\* data.get('edges', []) read at line 145, after the clear: data['edges'] that
\* is the store's own list was emptied by edges_data.clear().
data_edges(kg, data) == IF data.alias THEN kg.edges_data ELSE data.edges

load_from_dict(kg, data) ==
  LET k0 == load_clear(kg)
      k1 == load_nodes(k0, data.nodes)
      k2 == load_edges(k1, data_edges(k1, data))
  IN  sync_edges_data(k2)

\* ------------------------------------------------ GraphVisualizer (views)
\* get_graph_data, lines 21-29: one entry per node of the graph engine, its
\* type and properties read from the node's attribute dict.
graph_data_node(kg, node_id) ==
  LET node_data == kg.graph.attr[node_id]
  IN  [ id |-> node_id, label |-> node_id,
        type |-> IF node_data.node_type = None THEN "concept" ELSE node_data.node_type,
        properties |-> node_data.props,
        degree |-> GraphDegree(kg.graph, node_id) ]

\* get_graph_data, lines 32-39
graph_data_edge(kg, e) ==
  [ source |-> e[1], target |-> e[2],
    relationship |-> Get(kg.graph.eattr[e], "relationship", "related_to"),
    weight |-> Get(kg.graph.eattr[e], "weight", 1) ]

get_graph_data(kg) ==
  LET es == GraphEdges(kg.graph)
  IN  [ nodes |-> [i \in DOMAIN kg.graph.node |-> graph_data_node(kg, kg.graph.node[i])],
        edges |-> [i \in DOMAIN es |-> graph_data_edge(kg, es[i])] ]

\* ------------------------------------------------ sequences (Python lists)
\* s[:n]
Take(s, n) ==
  IF n >= 0 THEN SubSeq(s, 1, IF n < Len(s) THEN n ELSE Len(s))
  ELSE SubSeq(s, 1, IF Len(s) + n > 0 THEN Len(s) + n ELSE 0)

\* sorted(s, key=lambda x: x[1], reverse=True) for a list of (item, key)
\* pairs: by key descending, equal keys in the order they have in s.
SortedDesc(s) ==
  LET before(i) == { j \in DOMAIN s : s[j][2] > s[i][2] \/ (s[j][2] = s[i][2] /\ j < i) }
  IN  [k \in DOMAIN s |-> s[CHOOSE i \in DOMAIN s : Cardinality(before(i)) + 1 = k]]

\* The orders in which a set can be iterated (a Python set of str has no
\* order the program controls: it follows the hash seed of the process).
SetOrders(S) ==
  { o \in [1..Cardinality(S) -> S] : \A i, j \in DOMAIN o : i # j => o[i] # o[j] }

\* ------------------------------------------------- RecommendationEngine
\* A recommendation is [node, score, type]; its 'reason' text is built from
\* the same values and is left out.

\* Mutant: the score does not count the prerequisites.
MutPrerequisiteScoreFlat(kg, node_id) ==
  IF \E e \in EdgeSet(kg.graph) :
       e[2] = node_id /\ Get(kg.graph.eattr[e], "relationship", None) = "prerequisite"
  THEN << [node |-> node_id, score |-> 10, type |-> "prerequisite"] >>
  ELSE << >>

\* _recommend_by_prerequisites, lines 44-59: what one node contributes.
\* order is the iteration order of set(self.kg.graph.nodes()).
prerequisite_rec(kg, node_id) ==
  LET G == kg.graph
      in_edges == { e \in EdgeSet(G) : e[2] = node_id }
      prerequisite_edges ==
        { e \in in_edges : Get(G.eattr[e], "relationship", None) = "prerequisite" }
      prerequisites == { e[1] : e \in prerequisite_edges }
  IN  IF prerequisite_edges # {} /\ \A prereq \in prerequisites : prereq \in NodeSet(G)
      THEN << [node |-> node_id, score |-> Cardinality(prerequisite_edges) * 10,
               type |-> "prerequisite"] >>
      ELSE << >>

RECURSIVE prerequisite_recs(_, _)
prerequisite_recs(kg, order) ==
  IF order = << >> THEN << >>
  ELSE prerequisite_rec(kg, Head(order)) \o prerequisite_recs(kg, Tail(order))

_recommend_by_prerequisites(kg, limit, order) ==
  Take(prerequisite_recs(kg, order), limit)

\* dict(self.kg.graph.degree()).items(): (node, degree) in node order.
degree_items(G) == [i \in DOMAIN G.node |-> << G.node[i], GraphDegree(G, G.node[i]) >>]

_recommend_by_connectivity(kg, limit) ==
  LET sorted_nodes == Take(SortedDesc(degree_items(kg.graph)), limit * 2)
      Positive(x) == x[2] > 0
      kept == SelectSeq(sorted_nodes, Positive)
  IN  Take([i \in DOMAIN kept |->
              [node |-> kept[i][1], score |-> kept[i][2] * 5, type |-> "connectivity"]],
           limit)

\* The shortest paths from source to target.
ShortestPaths(G, source, target) ==
  LET ps == PathsBetween(G, source, target)
  IN  { p \in ps : \A q \in ps : Len(p) <= Len(q) }

\* 100 * nx.betweenness_centrality(G)[v] (normalized, endpoints excluded):
\* the ordered pairs (s, t), s # t, whose shortest path passes through v,
\* divided by (n-1)(n-2) when n > 2. On up to three nodes a pair has at
\* most one shortest path, so every pair counts 0 or 1 and the value is a
\* multiple of 50.
betweenness_x100(G, v) ==
  LET n == Len(G.node)
      through == { st \in (NodeSet(G) \ {v}) \X (NodeSet(G) \ {v}) :
                     /\ st[1] # st[2]
                     /\ \E p \in ShortestPaths(G, st[1], st[2]) :
                          \E i \in 2..(Len(p) - 1) : p[i] = v }
  IN  IF n > 2 THEN (100 * Cardinality(through)) \div ((n - 1) * (n - 2)) ELSE 0

betweenness_items(G) == [i \in DOMAIN G.node |-> << G.node[i], betweenness_x100(G, G.node[i]) >>]

\* _recommend_by_bridging when betweenness_centrality returns, lines 84-100.
_recommend_by_bridging(kg, limit) ==
  LET sorted_nodes == Take(SortedDesc(betweenness_items(kg.graph)), limit)
      Positive(x) == x[2] > 0
      kept == SelectSeq(sorted_nodes, Positive)
  IN  Take([i \in DOMAIN kept |->
              [node |-> kept[i][1], score |-> kept[i][2], type |-> "bridging"]],
           limit)

\* Mutant: no deduplication.
MutUniqueKeepsAll(recommendations, acc) == acc \o recommendations

\* get_recommendations, lines 29-33: one entry per node id, the first of the
\* highest score, at the place of the id's first entry.
RECURSIVE unique_recs(_, _)
unique_recs(recommendations, acc) ==
  IF recommendations = << >> THEN acc
  ELSE LET rec == Head(recommendations)
           hit == { i \in DOMAIN acc : acc[i].node = rec.node }
       IN  unique_recs(Tail(recommendations),
             IF hit = {} THEN Append(acc, rec)
             ELSE IF \E i \in hit : rec.score > acc[i].score
                  THEN [i \in DOMAIN acc |-> IF i \in hit THEN rec ELSE acc[i]]
                  ELSE acc)

\* get_recommendations, lines 17-26: the three lists, extended in this order.
recommendations_of(kg, limit, order) ==
  _recommend_by_prerequisites(kg, limit, order)
    \o _recommend_by_connectivity(kg, limit)
    \o _recommend_by_bridging(kg, limit)

\* get_recommendations, line 35
top_recs(recs, limit) ==
  LET keyed == [i \in DOMAIN recs |-> << recs[i], recs[i].score >>]
      sorted == SortedDesc(keyed)
  IN  Take([i \in DOMAIN sorted |-> sorted[i][1]], limit)

get_recommendations(kg, limit, order) ==
  top_recs(unique_recs(recommendations_of(kg, limit, order), << >>), limit)

\* --------------------------------------------------- the other queries
\* get_node_types: how many nodes the graph engine has of every type.
get_node_types(kg) ==
  LET G == kg.graph
      TypeOf(n) == IF G.attr[n].node_type = None THEN "unknown" ELSE G.attr[n].node_type
  IN  [t \in { TypeOf(n) : n \in NodeSet(G) } |->
         Cardinality({ n \in NodeSet(G) : TypeOf(n) = t })]

\* Mutant: ties come out latest node first.
MutMostConnectedReversed(kg, n) ==
  LET items == degree_items(kg.graph)
      rev == [i \in DOMAIN items |-> items[Len(items) + 1 - i]]
      sorted_nodes == Take(SortedDesc(rev), n)
  IN  [i \in DOMAIN sorted_nodes |->
         [node |-> sorted_nodes[i][1], connections |-> sorted_nodes[i][2]]]

get_most_connected_nodes(kg, n) ==
  LET sorted_nodes == Take(SortedDesc(degree_items(kg.graph)), n)
  IN  [i \in DOMAIN sorted_nodes |->
         [node |-> sorted_nodes[i][1], connections |-> sorted_nodes[i][2]]]

\* get_neighbors: the successors, [] for an id that is no node.
get_neighbors(kg, node_id) ==
  IF node_id \notin NodeSet(kg.graph) THEN << >> ELSE kg.graph.succ[node_id]

\* get_subgraph: the view of the graph engine induced by node_ids.
get_subgraph(kg, node_ids) ==
  LET G == kg.graph
      In(n) == n \in node_ids
  IN  [ node  |-> SelectSeq(G.node, In),
        edges |-> { e \in EdgeSet(G) : e[1] \in node_ids /\ e[2] \in node_ids } ]

\* Mutant: the layout keeps the position as a node attribute.
MutLaidOutSetsPos(G, layout) ==
  [G EXCEPT !.attr = [n \in DOMAIN @ |->
     [@[n] EXCEPT !.props = DictUpdate(@, [k \in {"pos"} |-> 0])]]]

\* get_node_positions hands self.kg.graph itself (no copy) to the layout
\* function; this is the graph as the function leaves it. The networkx
\* layouts return the positions and set nothing on the graph.
laid_out(G, layout) == G

\* get_node_positions: the algorithm the layout name selects and the nodes
\* that get a coordinate pair (the coordinates themselves are left out).
get_node_positions(kg, layout) ==
  [ algorithm |-> IF layout = "spring" THEN "spring_layout(k=1, iterations=50)"
                  ELSE IF layout = "circular" THEN "circular_layout"
                  ELSE IF layout = "hierarchical" THEN "graphviz_layout(prog='dot')"
                  ELSE "spring_layout",
    nodes |-> kg.graph.node ]

\* export_to_cytoscape: the entries of get_graph_data, the node's properties
\* spread beside id, label and type.
export_to_cytoscape(kg) ==
  LET graph_data == get_graph_data(kg)
  IN  [ nodes |-> [i \in DOMAIN graph_data.nodes |->
                     LET node == graph_data.nodes[i]
                     IN  DictUpdate([id |-> node.id, label |-> node.label, type |-> node.type],
                                    node.properties)],
        edges |-> [i \in DOMAIN graph_data.edges |->
                     LET edge == graph_data.edges[i]
                     IN  [source |-> edge.source, target |-> edge.target,
                          relationship |-> edge.relationship, weight |-> edge.weight]] ]

\* ------------------------------------------------------------ the inputs
\* The (node_type, properties) pairs handed to add_node and the
\* (relationship, weight) pairs handed to add_edge.
NodeArgs ==
  { << "concept", EmptyBag >>,
    << "skill", [k \in {"level"} |-> 1] >>,
    << "concept", [k \in {"level"} |-> 2] >>,
    << "skill", [k \in {"started"} |-> 1] >> }
EdgeArgs == { << "prerequisite", 1 >>, << "related_to", 2 >> }

\* Node entries of a snapshot: canonical keys, a repeated id without 'type',
\* legacy keys without 'properties', an empty 'id' beside a 'node_id', no id.
nA  == [id |-> "A", type |-> "skill", properties |-> [k \in {"level"} |-> 1]]
nA2 == [id |-> "A", properties |-> [k \in {"started"} |-> 1]]
nB  == [node_id |-> "B", node_type |-> "skill"]
nC  == [id |-> Empty, node_id |-> "C", type |-> "concept", properties |-> EmptyBag]
nE  == [id |-> Empty, type |-> "concept", properties |-> [k \in {"level"} |-> 1]]
LoadNodeLists ==
  { << >>, << nA, nB >>, << nA, nB, nC >>, << nA, nE, nB, nA2 >>, << nE, nB >> }

\* Edge entries of a snapshot: all keys, the defaults, a missing target, an
\* empty source.
eAB  == [source |-> "A", target |-> "B", relationship |-> "prerequisite", weight |-> 2]
eAB2 == [source |-> "A", target |-> "B"]
eBC  == [source |-> "B", target |-> "C", relationship |-> "prerequisite"]
eCA  == [source |-> "C", target |-> "A", weight |-> 2]
eA   == [source |-> "A"]
eE   == [source |-> Empty, target |-> "B"]
LoadEdgeLists ==
  { << >>, << eAB, eBC >>, << eAB, eAB2 >>, << eA, eBC, eCA >>, << eE, eAB2, eAB >> }

LoadInputs ==
  { [nodes |-> ns, edges |-> es, alias |-> FALSE] :
      ns \in LoadNodeLists, es \in LoadEdgeLists }

\* ------------------------------------------------------ the state machine
\* kg    : the KnowledgeGraph
\* last  : the latest call, its arguments and what it did
\* added : the ordered pairs added by a successful add_edge and not removed
\*         since by a cascading remove_node or the clear of a load_from_dict
\* held  : the ids whose stored 'properties' dict is an object the caller
\*         still has a reference to (the dict it passed in)
\* snap  : the caller has a to_dict() result whose 'edges' is the list object
\*         the store has as edges_data now
\* nops  : the number of calls made
\* pc, obs : the threads of the concurrent specification and what the
\*         latest read saw (unused by the sequential specifications)
VARIABLES kg, last, added, held, snap, nops, pc, obs

\* The module globals of main.py and the two files they name:
\* CAN_SAVE_TO_FILE, DATA_FILE (lines 23-27), and disk, what is at
\* 'data/knowledge_graph.json' (primary) and '/tmp/knowledge_graph.json'
\* (tmp): no file, a file json.load fails on, or a saved snapshot.
VARIABLES CAN_SAVE_TO_FILE, DATA_FILE, disk
main_vars == << CAN_SAVE_TO_FILE, DATA_FILE, disk >>

vars == << kg, last, added, held, snap, nops, pc, obs, CAN_SAVE_TO_FILE, DATA_FILE, disk >>

PRIMARY_DATA_FILE == "data/knowledge_graph.json"
TMP_DATA_FILE == "/tmp/knowledge_graph.json"
Missing == [kind |-> "missing"]
Corrupt == [kind |-> "corrupt"]
Json(data) == [kind |-> "json", data |-> data]

Threads == {"t1", "t2"}
Idle == [op |-> "idle"]

Init ==
  /\ kg = NewKnowledgeGraph
  /\ last = [op |-> "init"]
  /\ added = {}
  /\ held = {}
  /\ snap = FALSE
  /\ nops = 0
  /\ pc = [t \in Threads |-> Idle]
  /\ obs = [op |-> "init"]
  /\ CAN_SAVE_TO_FILE = TRUE
  /\ DATA_FILE = PRIMARY_DATA_FILE
  /\ disk = [primary |-> Missing, tmp |-> Missing]

\* The pairs load_from_dict hands to add_edge.
load_accepted(k, data) ==
  LET k1 == load_nodes(load_clear(k), data.nodes)
      es == data_edges(k1, data)
  IN  { << es[i].source, es[i].target >> :
          i \in { j \in DOMAIN es : load_edge_accepts(k1, es[j]) } }

\* The ids whose stored bag, after load_from_dict(data), is the 'properties'
\* dict of an entry of data (an entry without 'properties' stores a new {}).
load_held(data) ==
  LET EntryId(e) == Or(Get(e, "id", None), Get(e, "node_id", None))
      ns == data.nodes
  IN  { EntryId(ns[i]) :
          i \in { j \in DOMAIN ns :
                    /\ Truthy(EntryId(ns[j]))
                    /\ "properties" \in DOMAIN ns[j]
                    /\ \A l \in DOMAIN ns : l > j => EntryId(ns[l]) # EntryId(ns[j]) } }

AddNode(node_id, node_type, properties) ==
  /\ nops < MaxOps
  /\ kg' = add_node(kg, node_id, node_type, properties)
  /\ last' = [op |-> "add_node", id |-> node_id, type |-> node_type,
              properties |-> properties, raised |-> FALSE,
              existed |-> node_id \in NodeSet(kg.graph),
              again |-> /\ last.op = "add_node" /\ last.id = node_id
                        /\ last.type = node_type /\ last.properties = properties]
  /\ added' = added
  /\ held' = held \cup {node_id}
  /\ nops' = nops + 1
  /\ UNCHANGED << snap, pc, obs >>
  /\ UNCHANGED main_vars

AddEdge(source, target, relationship, weight) ==
  /\ nops < MaxOps
  /\ kg' = add_edge(kg, source, target, relationship, weight)
  /\ last' = [op |-> "add_edge", source |-> source, target |-> target,
              relationship |-> relationship, weight |-> weight,
              raised |-> add_edge_raises(kg, source, target),
              existed |-> << source, target >> \in EdgeSet(kg.graph),
              changed |-> /\ << source, target >> \in EdgeSet(kg.graph)
                          /\ kg.graph.eattr[<< source, target >>] #
                               [relationship |-> relationship, weight |-> weight]]
  /\ added' = IF add_edge_raises(kg, source, target) THEN added
              ELSE added \cup {<< source, target >>}
  /\ nops' = nops + 1
  /\ UNCHANGED << held, snap, pc, obs >>
  /\ UNCHANGED main_vars

RemoveNode(node_id) ==
  /\ nops < MaxOps
  /\ kg' = remove_node(kg, node_id)
  /\ last' = [op |-> "remove_node", id |-> node_id, raised |-> FALSE,
              existed |-> node_id \in NodeSet(kg.graph),
              dropped |-> Len(kg.edges_data) - Len(remove_node(kg, node_id).edges_data)]
  /\ added' = IF node_id \in NodeSet(kg.graph)
              THEN { e \in added : e[1] # node_id /\ e[2] # node_id }
              ELSE added
  /\ held' = held \ {node_id}
  /\ snap' = IF node_id \in NodeSet(kg.graph) THEN FALSE ELSE snap
  /\ nops' = nops + 1
  /\ UNCHANGED << pc, obs >>
  /\ UNCHANGED main_vars

\* load_from_dict(data) for a snapshot that shares nothing with the store.
LoadFromDict(data) ==
  /\ nops < MaxOps
  /\ kg' = load_from_dict(kg, data)
  /\ last' = [op |-> "load_from_dict", data |-> data, raised |-> FALSE,
              before |-> get_node_count(kg) + Len(kg.edges_data)]
  /\ added' = load_accepted(kg, data)
  /\ held' = load_held(data)
  /\ snap' = FALSE
  /\ nops' = nops + 1
  /\ UNCHANGED << pc, obs >>
  /\ UNCHANGED main_vars

\* kg.load_from_dict(kg.to_dict()): the snapshot restored into the store
\* that produced it.
RestoreSame ==
  /\ nops < MaxOps
  /\ kg' = load_from_dict(kg, to_dict(kg))
  /\ last' = [op |-> "restore_same", data |-> to_dict(kg), raised |-> FALSE]
  /\ added' = load_accepted(kg, to_dict(kg))
  /\ held' = NodesDataKeys(kg)
  /\ snap' = FALSE
  /\ nops' = nops + 1
  /\ UNCHANGED << pc, obs >>
  /\ UNCHANGED main_vars

\* fresh = KnowledgeGraph(); fresh.load_from_dict(kg.to_dict()); the run goes
\* on with fresh.
RestoreFresh ==
  /\ nops < MaxOps
  /\ kg' = load_from_dict(NewKnowledgeGraph, Detached(to_dict(kg)))
  /\ last' = [op |-> "restore_fresh", data |-> Detached(to_dict(kg)), raised |-> FALSE]
  /\ added' = load_accepted(NewKnowledgeGraph, Detached(to_dict(kg)))
  /\ held' = NodesDataKeys(kg)
  /\ snap' = FALSE
  /\ nops' = nops + 1
  /\ UNCHANGED << pc, obs >>
  /\ UNCHANGED main_vars

Next ==
  \/ \E n \in Ids, a \in NodeArgs : AddNode(n, a[1], a[2])
  \/ \E s \in Ids, t \in Ids, a \in EdgeArgs : AddEdge(s, t, a[1], a[2])
  \/ \E n \in Ids : RemoveNode(n)
  \/ \E data \in LoadInputs : LoadFromDict(data)
  \/ RestoreSame
  \/ RestoreFresh

Spec == Init /\ [][Next]_vars

\* --------------------------------------- the caller's references (aliases)
\* add_node stores the caller's dict itself as nodes_data[id]['properties']
\* (line 27), and to_dict hands out the node dicts and the list edges_data
\* themselves (lines 124-125). What the caller does to such an object, the
\* store sees.

\* to_dict(): a read; the caller now has the store's list of edges and its
\* node dicts.
ToDict ==
  /\ nops < MaxOps
  /\ last' = [op |-> "to_dict", result |-> to_dict(kg), raised |-> FALSE]
  /\ snap' = TRUE
  /\ held' = NodesDataKeys(kg)
  /\ nops' = nops + 1
  /\ UNCHANGED << kg, added, pc, obs >>
  /\ UNCHANGED main_vars

\* nodes_data[node_id]['properties'] after the caller has changed, in
\* place, the dict it passed in: the same object, so the same new content.
caller_mutates_bag(k, node_id, bag) ==
  [k EXCEPT !.nodes_data =
     [i \in DOMAIN @ |-> IF @[i].id = node_id THEN [@[i] EXCEPT !.properties = bag]
                         ELSE @[i]]]

\* The caller changes the property dict it handed to add_node or
\* load_from_dict earlier (props['level'] = ..., props.clear(), ...).
CallerMutatesBag(node_id, bag) ==
  /\ nops < MaxOps
  /\ node_id \in held /\ node_id \in NodesDataKeys(kg)
  /\ NodesDataAt(kg, node_id).properties # bag
  /\ kg' = caller_mutates_bag(kg, node_id, bag)
  /\ last' = [op |-> "caller_mutates_bag", id |-> node_id, properties |-> bag,
              raised |-> FALSE]
  /\ nops' = nops + 1
  /\ UNCHANGED << added, held, snap, pc, obs >>
  /\ UNCHANGED main_vars

\* The caller appends an entry to the 'edges' list of a to_dict() result.
CallerMutatesSnapshot(entry) ==
  /\ nops < MaxOps
  /\ snap
  /\ kg' = [kg EXCEPT !.edges_data = Append(@, entry)]
  /\ last' = [op |-> "caller_mutates_snapshot", entry |-> entry, raised |-> FALSE]
  /\ nops' = nops + 1
  /\ UNCHANGED << added, held, snap, pc, obs >>
  /\ UNCHANGED main_vars

NextAlias ==
  \/ Next
  \/ ToDict
  \/ \E n \in Ids, a \in NodeArgs : CallerMutatesBag(n, a[2])
  \/ \E e \in { eAB, eBC } : CallerMutatesSnapshot(e)

SpecAlias == Init /\ [][NextAlias]_vars


\* ------------------------------------------------- concurrent requests
\* src/ holds no lock: the Flask server started by app.run (main.py:255)
\* serves every request on a thread of its own, and a thread can be
\* preempted between any two statements of a KnowledgeGraph method. Each
\* thread serves one call at a time, a statement (or a group of statements
\* on one structure) per step; pc[t].at is the line the thread is at.

\* The requests a thread serves.
ConcRequests ==
  { [op |-> "add_node", at |-> "l23", id |-> n, type |-> "concept", properties |-> EmptyBag] :
      n \in {"A", "B"} }
  \cup
  { [op |-> "add_edge", at |-> "l32", source |-> "A", target |-> "B",
     relationship |-> a[1], weight |-> a[2]] : a \in EdgeArgs }
  \cup
  { [op |-> "remove_node", at |-> "l58", id |-> n] : n \in {"A", "B"} }

\* A thread takes up a request.
Begin(t, request) ==
  /\ nops < MaxOps
  /\ pc[t] = Idle
  /\ pc' = [pc EXCEPT ![t] = request]
  /\ nops' = nops + 1
  /\ UNCHANGED << kg, last, added, held, snap, obs >>
  /\ UNCHANGED main_vars

Goto(t, line) == pc' = [pc EXCEPT ![t].at = line]
Return(t) == pc' = [pc EXCEPT ![t] = Idle]

\* add_node: line 23, then lines 24-28.
StepAddNode(t) ==
  /\ pc[t].op = "add_node"
  /\ \/ /\ pc[t].at = "l23"
        /\ kg' = add_node_graph(kg, pc[t].id, pc[t].type, pc[t].properties)
        /\ Goto(t, "l24")
     \/ /\ pc[t].at = "l24"
        /\ kg' = add_node_data(kg, pc[t].id, pc[t].type, pc[t].properties)
        /\ Return(t)
  /\ UNCHANGED << last, added, held, snap, nops, obs >>
  /\ UNCHANGED main_vars

\* add_edge: the guard (32), the branch (36), lines 38-39 and 41-45, or
\* line 48 and lines 49-54. graph.edges[source, target] of an edge that is
\* gone raises KeyError.
StepAddEdge(t) ==
  LET r == pc[t]
  IN
  /\ r.op = "add_edge"
  /\ \/ /\ r.at = "l32"
        /\ IF add_edge_raises(kg, r.source, r.target) THEN Return(t) ELSE Goto(t, "l36")
        /\ kg' = kg
     \/ /\ r.at = "l36"
        /\ IF << r.source, r.target >> \in EdgeSet(kg.graph) THEN Goto(t, "l38") ELSE Goto(t, "l48")
        /\ kg' = kg
     \/ /\ r.at = "l38"
        /\ IF << r.source, r.target >> \in EdgeSet(kg.graph)
           THEN /\ kg' = add_edge_update_graph(kg, r.source, r.target, r.relationship, r.weight)
                /\ Goto(t, "l41")
           ELSE /\ kg' = kg
                /\ Return(t)
     \/ /\ r.at = "l41"
        /\ kg' = add_edge_update_data(kg, r.source, r.target, r.relationship, r.weight)
        /\ Return(t)
     \/ /\ r.at = "l48"
        /\ kg' = add_edge_insert_graph(kg, r.source, r.target, r.relationship, r.weight)
        /\ Goto(t, "l49")
     \/ /\ r.at = "l49"
        /\ kg' = add_edge_insert_data(kg, r.source, r.target, r.relationship, r.weight)
        /\ Return(t)
  /\ UNCHANGED << last, added, held, snap, nops, obs >>
  /\ UNCHANGED main_vars

\* remove_node: the test (58), lines 61, 62 and 64-67. DiGraph.remove_node of
\* a node that is gone raises NetworkXError.
StepRemoveNode(t) ==
  LET r == pc[t]
  IN
  /\ r.op = "remove_node"
  /\ \/ /\ r.at = "l58"
        /\ IF r.id \in NodeSet(kg.graph) THEN Goto(t, "l61") ELSE Return(t)
        /\ kg' = kg
     \/ /\ r.at = "l61"
        /\ IF r.id \in NodeSet(kg.graph)
           THEN /\ kg' = remove_node_graph(kg, r.id)
                /\ Goto(t, "l62")
           ELSE /\ kg' = kg
                /\ Return(t)
     \/ /\ r.at = "l62"
        /\ kg' = remove_node_data(kg, r.id)
        /\ Goto(t, "l64")
     \/ /\ r.at = "l64"
        /\ kg' = remove_node_edges(kg, r.id)
        /\ Return(t)
  /\ UNCHANGED << last, added, held, snap, nops, obs >>
  /\ UNCHANGED main_vars

\* GET /api/verify: what the handler reads of both representations.
verify_graph(k) ==
  [ op |-> "verify",
    node_count |-> get_node_count(k),
    edge_count |-> get_edge_count(k),
    all_nodes |-> k.graph.node,
    all_edges |-> GraphEdges(k.graph),
    nodes_data_keys |-> [i \in DOMAIN k.nodes_data |-> k.nodes_data[i].id],
    edges_data_count |-> Len(k.edges_data) ]

\* A read request is served while the other threads are wherever they are.
Verify ==
  /\ obs' = verify_graph(kg)
  /\ UNCHANGED << kg, last, added, held, snap, nops, pc >>
  /\ UNCHANGED main_vars

NextConc ==
  \/ \E t \in Threads, r \in ConcRequests : Begin(t, r)
  \/ \E t \in Threads : StepAddNode(t)
  \/ \E t \in Threads : StepAddEdge(t)
  \/ \E t \in Threads : StepRemoveNode(t)
  \/ Verify

SpecConc == Init /\ [][NextConc]_vars


\* ------------------------------------------------------------- the reads
\* The store as load_data leaves it when there is no data file (main.py,
\* lines 55-59), and the queries made on it.
MaxLimit == 3
Limits == 0..MaxLimit
ExampleIds == {"Python", "Flask", "Graph Theory"}
Layouts == {"spring", "circular", "hierarchical", "grid"}
\* The (node_type, properties) pairs of the add_node calls made on it.
ExampleNodeArgs ==
  { << "concept", EmptyBag >>, << "skill", [key \in {"level"} |-> "advanced"] >> }

\* load_data, lines 55-59: the example data.
example_data(k) ==
  LET k1 == add_node(k, "Python", "concept",
                     [key \in {"level", "started"} |->
                        IF key = "level" THEN "intermediate" ELSE "2024-01-01"])
      k2 == add_node(k1, "Flask", "concept",
                     [key \in {"level", "started"} |->
                        IF key = "level" THEN "beginner" ELSE "2024-02-01"])
      k3 == add_node(k2, "Graph Theory", "concept",
                     [key \in {"level", "started"} |->
                        IF key = "level" THEN "beginner" ELSE "2024-03-01"])
      k4 == add_edge(k3, "Python", "Flask", "prerequisite", 1)
  IN  add_edge(k4, "Python", "Graph Theory", "related_to", 1)

\* load_data on an empty store with no file at either location.
LoadExample ==
  /\ nops < MaxOps
  /\ get_node_count(kg) = 0
  /\ disk.primary = Missing /\ disk.tmp = Missing
  /\ kg' = example_data(kg)
  /\ last' = [op |-> "load_example", raised |-> FALSE]
  /\ added' = { << "Python", "Flask" >>, << "Python", "Graph Theory" >> }
  /\ held' = {}
  /\ snap' = FALSE
  /\ nops' = nops + 1
  /\ UNCHANGED << pc, obs >>
  /\ UNCHANGED main_vars

\* A query is a call like any other; MaxReads more calls than the mutators
\* get are left for queries, so that a query can follow the last mutation.
MaxReads == 1

\* get_recommendations(limit); the order in which set(graph.nodes()) is
\* iterated is any.
GetRecommendations(limit) ==
  /\ nops < MaxOps + MaxReads
  /\ \E order \in SetOrders(NodeSet(kg.graph)) :
       last' = [op |-> "get_recommendations", limit |-> limit, raised |-> FALSE,
                order |-> order,
                result |-> get_recommendations(kg, limit, order)]
  /\ nops' = nops + 1
  /\ UNCHANGED << kg, added, held, snap, pc, obs >>
  /\ UNCHANGED main_vars

GetMostConnectedNodes(n) ==
  /\ nops < MaxOps + MaxReads
  /\ last' = [op |-> "get_most_connected_nodes", n |-> n, raised |-> FALSE,
              result |-> get_most_connected_nodes(kg, n)]
  /\ nops' = nops + 1
  /\ UNCHANGED << kg, added, held, snap, pc, obs >>
  /\ UNCHANGED main_vars

GetNeighbors(node_id) ==
  /\ nops < MaxOps + MaxReads
  /\ last' = [op |-> "get_neighbors", id |-> node_id, raised |-> FALSE,
              result |-> get_neighbors(kg, node_id)]
  /\ nops' = nops + 1
  /\ UNCHANGED << kg, added, held, snap, pc, obs >>
  /\ UNCHANGED main_vars

FindPath(source, target) ==
  /\ nops < MaxOps + MaxReads
  /\ last' = [op |-> "find_path", source |-> source, target |-> target,
              raised |-> find_path(kg, source, target).kind = "raise",
              result |-> find_path(kg, source, target)]
  /\ nops' = nops + 1
  /\ UNCHANGED << kg, added, held, snap, pc, obs >>
  /\ UNCHANGED main_vars

GetSubgraph(node_ids) ==
  /\ nops < MaxOps + MaxReads
  /\ last' = [op |-> "get_subgraph", node_ids |-> node_ids, raised |-> FALSE,
              result |-> get_subgraph(kg, node_ids)]
  /\ nops' = nops + 1
  /\ UNCHANGED << kg, added, held, snap, pc, obs >>
  /\ UNCHANGED main_vars

\* get_node_count, get_edge_count, get_node_types (as GET /api/stats reads them).
GetCounts(query) ==
  /\ nops < MaxOps + MaxReads
  /\ last' = [op |-> query, raised |-> FALSE,
              result |-> IF query = "get_node_count" THEN << get_node_count(kg) >>
                         ELSE IF query = "get_edge_count" THEN << get_edge_count(kg) >>
                         ELSE << get_node_types(kg) >>]
  /\ nops' = nops + 1
  /\ UNCHANGED << kg, added, held, snap, pc, obs >>
  /\ UNCHANGED main_vars

GetGraphData ==
  /\ nops < MaxOps + MaxReads
  /\ last' = [op |-> "get_graph_data", raised |-> FALSE, result |-> get_graph_data(kg)]
  /\ nops' = nops + 1
  /\ UNCHANGED << kg, added, held, snap, pc, obs >>
  /\ UNCHANGED main_vars

ExportToCytoscape ==
  /\ nops < MaxOps + MaxReads
  /\ last' = [op |-> "export_to_cytoscape", raised |-> FALSE,
              result |-> export_to_cytoscape(kg)]
  /\ nops' = nops + 1
  /\ UNCHANGED << kg, added, held, snap, pc, obs >>
  /\ UNCHANGED main_vars

\* get_node_positions(layout); graphviz_layout raises ImportError where
\* pygraphviz is not installed.
GetNodePositions(layout) ==
  /\ nops < MaxOps + MaxReads
  /\ kg' = [kg EXCEPT !.graph = laid_out(@, layout)]
  /\ \E raised \in IF layout = "hierarchical" THEN BOOLEAN ELSE {FALSE} :
       last' = [op |-> "get_node_positions", layout |-> layout, raised |-> raised,
                result |-> get_node_positions(kg, layout)]
  /\ nops' = nops + 1
  /\ UNCHANGED << added, held, snap, pc, obs >>
  /\ UNCHANGED main_vars

Reads ==
  \/ \E limit \in Limits : GetRecommendations(limit)
  \/ \E n \in Limits : GetMostConnectedNodes(n)
  \/ \E n \in ExampleIds : GetNeighbors(n)
  \/ \E s \in ExampleIds, t \in ExampleIds : FindPath(s, t)
  \/ \E ns \in SUBSET ExampleIds : GetSubgraph(ns)
  \/ \E query \in {"get_node_count", "get_edge_count", "get_node_types"} : GetCounts(query)
  \/ GetGraphData
  \/ ExportToCytoscape
  \/ \E layout \in Layouts : GetNodePositions(layout)
  \/ ToDict

NextRead ==
  \/ LoadExample
  \/ \E n \in ExampleIds, a \in ExampleNodeArgs : AddNode(n, a[1], a[2])
  \/ \E s \in ExampleIds, t \in ExampleIds, a \in EdgeArgs : AddEdge(s, t, a[1], a[2])
  \/ \E n \in ExampleIds : RemoveNode(n)
  \/ Reads

SpecRead == Init /\ [][NextRead]_vars


\* ------------------------------------------- a failing centrality computation
\* _recommend_by_bridging when nx.betweenness_centrality raises at line 84
\* (the graph engine changed by another request thread while it is iterated
\* raises RuntimeError): the except clause passes, and line 100 reads
\* `recommendations`, which line 87 never assigned.
_recommend_by_bridging_raising(k, limit) ==
  [kind |-> "raise", error |-> "UnboundLocalError"]

\* get_recommendations has no handler of its own: what line 26 raises, it raises.
GetRecommendationsCentralityRaises(limit) ==
  /\ nops < MaxOps + MaxReads
  /\ \E order \in SetOrders(NodeSet(kg.graph)) :
       last' = [op |-> "get_recommendations", limit |-> limit,
                raised |-> _recommend_by_bridging_raising(kg, limit).kind = "raise",
                order |-> order, centrality |-> "raised",
                others |-> _recommend_by_prerequisites(kg, limit, order)
                             \o _recommend_by_connectivity(kg, limit)]
  /\ nops' = nops + 1
  /\ UNCHANGED << kg, added, held, snap, pc, obs >>
  /\ UNCHANGED main_vars

NextFault ==
  \/ NextRead
  \/ \E limit \in Limits : GetRecommendationsCentralityRaises(limit)

SpecFault == Init /\ [][NextFault]_vars


\* -------------------------------------------------- main.py: the HTTP layer
\* The file at a path.
FileAt(dsk, path) == IF path = TMP_DATA_FILE THEN dsk.tmp ELSE dsk.primary

\* load_data, lines 29-59: the file DATA_FILE names if it is there and loads,
\* else the /tmp file if it is there and loads (DATA_FILE then names it),
\* else the example data.
load_data(k, data_file, dsk) ==
  IF FileAt(dsk, data_file).kind = "json"
  THEN [kg |-> load_from_dict(k, FileAt(dsk, data_file).data), DATA_FILE |-> data_file]
  ELSE IF dsk.tmp.kind = "json"
       THEN [kg |-> load_from_dict(k, dsk.tmp.data), DATA_FILE |-> TMP_DATA_FILE]
       ELSE [kg |-> example_data(k), DATA_FILE |-> data_file]

\* ensure_data_loaded (before every request), lines 101-110
ensure_data_loaded(k, data_file, dsk) ==
  IF get_node_count(k) = 0 THEN load_data(k, data_file, dsk)
  ELSE [kg |-> k, DATA_FILE |-> data_file]

\* What a write attempt can do: "ok" writes the file; "refused" fails before
\* the file is touched (makedirs or open raises OSError); "broken" fails
\* after open has truncated it.
WriteOutcomes == {"ok", "refused", "broken"}

\* with open(path, 'w') as f: json.dump(data_dict, f)
write_file(dsk, path, data, outcome) ==
  LET content == IF outcome = "ok" THEN Json(data)
                 ELSE IF outcome = "broken" THEN Corrupt
                 ELSE FileAt(dsk, path)
  IN  IF path = TMP_DATA_FILE THEN [dsk EXCEPT !.tmp = content]
      ELSE [dsk EXCEPT !.primary = content]

\* Mutant: a save that cannot write takes the store back to empty.
MutSaveDataDropsOnFailure(st, w1, w2) ==
  IF w1 = "ok" THEN [st EXCEPT !.attempts = << [path |-> st.DATA_FILE, outcome |-> w1] >>]
  ELSE [st EXCEPT !.kg = NewKnowledgeGraph, !.CAN_SAVE_TO_FILE = FALSE,
                  !.attempts = << [path |-> st.DATA_FILE, outcome |-> w1] >>]

\* Mutant: save_data tries to write whatever CAN_SAVE_TO_FILE says, and a
\* write that works sets the flag again.
MutSaveDataRetries(st, w1, w2) ==
  LET data_dict == Detached(to_dict(st.kg))
      first == [path |-> st.DATA_FILE, outcome |-> w1]
  IN  [st EXCEPT !.disk = write_file(@, st.DATA_FILE, data_dict, w1),
                 !.CAN_SAVE_TO_FILE = (w1 = "ok"),
                 !.attempts = << first >>]

\* save_data, lines 61-94. st holds kg, CAN_SAVE_TO_FILE, DATA_FILE and disk;
\* w1 and w2 are what the first and the second write attempt do; attempts
\* lists the writes made.
save_data(st, w1, w2) ==
  LET data_dict == Detached(to_dict(st.kg))
      first == [path |-> st.DATA_FILE, outcome |-> w1]
      second == [path |-> TMP_DATA_FILE, outcome |-> w2]
  IN  IF ~st.CAN_SAVE_TO_FILE THEN [st EXCEPT !.attempts = << >>]
      ELSE IF w1 = "ok"
      THEN [st EXCEPT !.disk = write_file(@, st.DATA_FILE, data_dict, w1),
                      !.attempts = << first >>]
      ELSE IF st.DATA_FILE # TMP_DATA_FILE
      THEN IF w2 = "ok"
           THEN [st EXCEPT
                   !.disk = write_file(write_file(@, st.DATA_FILE, data_dict, w1),
                                       TMP_DATA_FILE, data_dict, w2),
                   !.DATA_FILE = TMP_DATA_FILE,
                   !.attempts = << first, second >>]
           ELSE [st EXCEPT
                   !.disk = write_file(write_file(@, st.DATA_FILE, data_dict, w1),
                                       TMP_DATA_FILE, data_dict, w2),
                   !.CAN_SAVE_TO_FILE = FALSE,
                   !.attempts = << first, second >>]
      ELSE [st EXCEPT !.disk = write_file(@, st.DATA_FILE, data_dict, w1),
                      !.CAN_SAVE_TO_FILE = FALSE,
                      !.attempts = << first >>]

\* The globals as a request finds them, after ensure_data_loaded and the
\* handler's own `if kg.get_node_count() == 0: load_data()`.
entered(k, can_save, data_file, dsk) ==
  LET e1 == ensure_data_loaded(k, data_file, dsk)
      e2 == ensure_data_loaded(e1.kg, e1.DATA_FILE, dsk)
  IN  [kg |-> e2.kg, CAN_SAVE_TO_FILE |-> can_save, DATA_FILE |-> e2.DATA_FILE,
       disk |-> dsk, attempts |-> << >>]

\* POST /api/nodes, lines 118-155: the globals after the request and the
\* status of the response.
http_add_node(st, data, w1, w2) ==
  LET node_id == Get(data, "id", None)
      node_type == Get(data, "type", "concept")
      properties == Get(data, "properties", EmptyBag)
  IN  IF DOMAIN data = {} THEN [st |-> st, status |-> 400, called |-> FALSE]
      ELSE IF ~Truthy(node_id) THEN [st |-> st, status |-> 400, called |-> FALSE]
      ELSE IF node_id \in NodeSet(st.kg.graph) THEN [st |-> st, status |-> 400, called |-> FALSE]
      ELSE LET added_st == [st EXCEPT !.kg = add_node(@, node_id, node_type, properties)]
               saved == save_data(added_st, w1, w2)
           IN  [st |-> saved,
                status |-> IF node_id \notin NodeSet(saved.kg.graph) THEN 500 ELSE 200,
                called |-> TRUE]

\* Mutant: the handler leaves the source == target test to the store.
MutHttpAddEdgeNoSelfTest(st, data, w1, w2) ==
  LET source == Get(data, "source", None)
      target == Get(data, "target", None)
      relationship == Get(data, "relationship", "related_to")
  IN  IF DOMAIN data = {} THEN [st |-> st, status |-> 400, called |-> FALSE]
      ELSE IF ~Truthy(source) \/ ~Truthy(target) THEN [st |-> st, status |-> 400, called |-> FALSE]
      ELSE IF source \notin NodeSet(st.kg.graph) \/ target \notin NodeSet(st.kg.graph)
      THEN [st |-> st, status |-> 400, called |-> FALSE]
      ELSE IF << source, target >> \in EdgeSet(st.kg.graph)
      THEN [st |-> st, status |-> 400, called |-> FALSE]
      ELSE [st |-> save_data([st EXCEPT !.kg = add_edge(@, source, target, relationship, 1)],
                             w1, w2),
            status |-> 200, called |-> TRUE]

\* POST /api/edges, lines 157-208
http_add_edge(st, data, w1, w2) ==
  LET source == Get(data, "source", None)
      target == Get(data, "target", None)
      relationship == Get(data, "relationship", "related_to")
  IN  IF DOMAIN data = {} THEN [st |-> st, status |-> 400, called |-> FALSE]
      ELSE IF ~Truthy(source) \/ ~Truthy(target) THEN [st |-> st, status |-> 400, called |-> FALSE]
      ELSE IF source = target THEN [st |-> st, status |-> 400, called |-> FALSE]
      ELSE IF source \notin NodeSet(st.kg.graph) \/ target \notin NodeSet(st.kg.graph)
      THEN [st |-> st, status |-> 400, called |-> FALSE]
      ELSE IF << source, target >> \in EdgeSet(st.kg.graph)
      THEN [st |-> st, status |-> 400, called |-> FALSE]
      ELSE [st |-> save_data([st EXCEPT !.kg = add_edge(@, source, target, relationship, 1)],
                             w1, w2),
            status |-> 200, called |-> TRUE]

\* The JSON bodies of the requests.
NodeBodies ==
  { [k \in {} |-> 0],
    [type |-> "skill"],
    [id |-> Empty],
    [id |-> "A"],
    [id |-> "B", type |-> "skill", properties |-> [key \in {"level"} |-> "advanced"]],
    [id |-> "Python", type |-> "skill"] }
EdgeBodies ==
  { [k \in {} |-> 0],
    [source |-> "A"],
    [source |-> "A", target |-> "A"],
    [source |-> "A", target |-> "B", relationship |-> "prerequisite"],
    [source |-> "B", target |-> "A"],
    [source |-> "Python", target |-> "A"],
    [source |-> "Python", target |-> "Flask", relationship |-> "related_to"] }

\* An edge entry of a saved snapshot with source == target.
eAA == [source |-> "A", target |-> "A", relationship |-> "related_to", weight |-> 1]

\* What the two files hold when the process starts.
InitialDisks ==
  { [primary |-> f, tmp |-> g] :
      f \in { Missing, Corrupt, Json([nodes |-> << nA, nB >>, edges |-> << eAB >>, alias |-> FALSE]) },
      g \in { Missing, Json([nodes |-> << >>, edges |-> << >>, alias |-> FALSE]),
              Json([nodes |-> << nB >>, edges |-> << >>, alias |-> FALSE]),
              Json([nodes |-> << nA >>, edges |-> << eAA >>, alias |-> FALSE]) } }

InitHttp ==
  /\ kg = NewKnowledgeGraph
  /\ last = [op |-> "init"]
  /\ added = {}
  /\ held = {}
  /\ snap = FALSE
  /\ nops = 0
  /\ pc = [t \in Threads |-> Idle]
  /\ obs = [op |-> "init"]
  /\ CAN_SAVE_TO_FILE = TRUE
  /\ DATA_FILE = PRIMARY_DATA_FILE
  /\ disk \in InitialDisks

HttpAddNode(data, w1, w2) ==
  \E r \in { http_add_node(entered(kg, CAN_SAVE_TO_FILE, DATA_FILE, disk), data, w1, w2) } :
      /\ nops < MaxOps
      /\ kg' = r.st.kg
      /\ CAN_SAVE_TO_FILE' = r.st.CAN_SAVE_TO_FILE
      /\ DATA_FILE' = r.st.DATA_FILE
      /\ disk' = r.st.disk
      /\ last' = [op |-> "POST /api/nodes", data |-> data, status |-> r.status,
                  raised |-> FALSE, called |-> r.called, attempts |-> r.st.attempts,
                  could_save |-> CAN_SAVE_TO_FILE]
      /\ nops' = nops + 1
      /\ UNCHANGED << added, held, snap, pc, obs >>

HttpAddEdge(data, w1, w2) ==
  \E r \in { http_add_edge(entered(kg, CAN_SAVE_TO_FILE, DATA_FILE, disk), data, w1, w2) } :
      /\ nops < MaxOps
      /\ kg' = r.st.kg
      /\ CAN_SAVE_TO_FILE' = r.st.CAN_SAVE_TO_FILE
      /\ DATA_FILE' = r.st.DATA_FILE
      /\ disk' = r.st.disk
      /\ last' = [op |-> "POST /api/edges", data |-> data, status |-> r.status,
                  raised |-> FALSE, called |-> r.called, attempts |-> r.st.attempts,
                  could_save |-> CAN_SAVE_TO_FILE]
      /\ nops' = nops + 1
      /\ UNCHANGED << added, held, snap, pc, obs >>

\* GET /api/graph, lines 112-116, after ensure_data_loaded.
HttpGetGraph ==
  \E e \in { ensure_data_loaded(kg, DATA_FILE, disk) } :
      /\ nops < MaxOps
      /\ kg' = e.kg
      /\ DATA_FILE' = e.DATA_FILE
      /\ last' = [op |-> "GET /api/graph", status |-> 200, raised |-> FALSE,
                  result |-> get_graph_data(e.kg)]
      /\ nops' = nops + 1
      /\ UNCHANGED << added, held, snap, pc, obs, CAN_SAVE_TO_FILE, disk >>

NextHttp ==
  \/ \E data \in NodeBodies, w1 \in WriteOutcomes, w2 \in WriteOutcomes : HttpAddNode(data, w1, w2)
  \/ \E data \in EdgeBodies, w1 \in WriteOutcomes, w2 \in WriteOutcomes : HttpAddEdge(data, w1, w2)
  \/ HttpGetGraph

SpecHttp == InitHttp /\ [][NextHttp]_vars


\* ----------------------------------------------------------------- claims
\* C1: after any sequence of add_node / add_edge / remove_node /
\* load_from_dict calls, failed ones included, every edge has both endpoints
\* among the nodes: the edges of the graph engine (as get_graph_data and
\* get_edge_count report them) against its nodes, and the edges of
\* to_dict()['edges'] against to_dict()['nodes'].
C1_NoDanglingEdges ==
  LET view == get_graph_data(kg)
      d    == to_dict(kg)
      view_ids == { view.nodes[i].id : i \in DOMAIN view.nodes }
      dict_ids == { d.nodes[i].id : i \in DOMAIN d.nodes }
  IN  /\ \A e \in EdgeSet(kg.graph) : e[1] \in NodeSet(kg.graph) /\ e[2] \in NodeSet(kg.graph)
      /\ get_edge_count(kg) = Len(view.edges)
      /\ \A i \in DOMAIN view.edges :
           view.edges[i].source \in view_ids /\ view.edges[i].target \in view_ids
      /\ \A i \in DOMAIN d.edges :
           d.edges[i].source \in dict_ids /\ d.edges[i].target \in dict_ids

\* A remove_node that cascaded to at least one edge and left another one.
C1_Witness ==
  /\ last.op = "remove_node" /\ last.existed /\ last.dropped > 0
  /\ kg.edges_data # << >>

\* C2: in every reachable state the keys of nodes_data are the nodes of the
\* graph engine, and edges_data holds exactly one entry per edge of the graph
\* engine, with that edge's relationship and weight, and no other entry.
C2_RepresentationsAgree ==
  LET ed == kg.edges_data
  IN  /\ NodesDataKeys(kg) = NodeSet(kg.graph)
      /\ Len(kg.nodes_data) = Cardinality(NodesDataKeys(kg))
      /\ \A e \in EdgeSet(kg.graph) :
           LET hit == { i \in DOMAIN ed : ed[i].source = e[1] /\ ed[i].target = e[2] }
           IN  /\ Cardinality(hit) = 1
               /\ \A i \in hit :
                    /\ ed[i].relationship = kg.graph.eattr[e].relationship
                    /\ ed[i].weight = kg.graph.eattr[e].weight
      /\ \A i \in DOMAIN ed : << ed[i].source, ed[i].target >> \in EdgeSet(kg.graph)

\* An add_edge that updated an existing edge, beside a second edge.
C2_Witness ==
  /\ last.op = "add_edge" /\ ~last.raised /\ last.existed
  /\ get_edge_count(kg) > 1

\* What a caller can observe of the graph: the node set, the edges with
\* their relationship and weight (of the graph engine and of to_dict), the
\* degree of every node and find_path for every pair.
Observable(k) ==
  [ nodes      |-> NodeSet(k.graph),
    edges      |-> k.graph.eattr,
    dict_nodes |-> { k.nodes_data[i].id : i \in DOMAIN k.nodes_data },
    dict_edges |-> Range(k.edges_data),
    degree     |-> [n \in NodeSet(k.graph) |-> GraphDegree(k.graph, n)],
    path       |-> [st \in Ids \X Ids |-> find_path(k, st[1], st[2])] ]

\* C3: load_from_dict(to_dict()) yields an observably identical graph (same
\* nodes, same edges with relationship and weight, same degrees and
\* find_path answers), restored into a fresh KnowledgeGraph or into the one
\* that produced the snapshot.
C3_RoundTrip ==
  [][ last'.op \in {"restore_same", "restore_fresh"}
        => Observable(kg') = Observable(kg) ]_vars

\* The part of C3 that the code keeps: the restore into a fresh store.
C3_RoundTripFresh ==
  [][ last'.op = "restore_fresh" => Observable(kg') = Observable(kg) ]_vars

\* The entries of to_dict()['edges'] for the pair (source, target).
DictEdgesOf(k, source, target) ==
  LET ed == to_dict(k).edges
  IN  { ed[i] : i \in { j \in DOMAIN ed : ed[j].source = source /\ ed[j].target = target } }

\* C4: at most one edge per ordered pair. get_edge_count() is the number of
\* distinct pairs added by a successful add_edge and not removed since (by a
\* cascading remove_node; load_from_dict, which empties the store, starts the
\* count again), and add_edge on a pair that has an edge leaves
\* get_edge_count() and the length of to_dict()['edges'] as they were and
\* replaces the relationship and weight of that edge.
C4_OneEdgePerPair ==
  [][ /\ get_edge_count(kg') = Cardinality(added')
      /\ EdgeSet(kg'.graph) = added'
      /\ (last'.op = "add_edge" /\ << last'.source, last'.target >> \in EdgeSet(kg.graph)
            => /\ get_edge_count(kg') = get_edge_count(kg)
               /\ Len(to_dict(kg').edges) = Len(to_dict(kg).edges)
               /\ kg'.graph.eattr[<< last'.source, last'.target >>] =
                    [relationship |-> last'.relationship, weight |-> last'.weight]
               /\ DictEdgesOf(kg', last'.source, last'.target) =
                    { [source |-> last'.source, target |-> last'.target,
                       relationship |-> last'.relationship, weight |-> last'.weight] })
    ]_vars

\* An add_edge on a pair that had an edge with another relationship or weight.
C4_Witness ==
  /\ last.op = "add_edge" /\ last.existed /\ last.changed

\* C5: add_edge with a source or a target that is no node raises and changes
\* nothing: nodes, edges, get_edge_count(), nodes_data and edges_data are as
\* before, and no node is made for the missing endpoint.
C5_FailedAddEdgeChangesNothing ==
  [][ ( /\ last'.op = "add_edge"
        /\ (last'.source \notin NodeSet(kg.graph) \/ last'.target \notin NodeSet(kg.graph)) )
        => /\ last'.raised
           /\ kg' = kg
           /\ get_edge_count(kg') = get_edge_count(kg)
           /\ NodeSet(kg'.graph) = NodeSet(kg.graph)
    ]_vars

\* A failed add_edge whose source is a node and whose target is none.
C5_Witness ==
  /\ last.op = "add_edge" /\ last.raised
  /\ last.source \in NodeSet(kg.graph) /\ last.target \notin NodeSet(kg.graph)

\* C6: add_node on an id that exists is a full overwrite: to_dict and
\* get_graph_data both report exactly the new type and exactly the new
\* property bag for that node.
C6_FullOverwrite ==
  [][ (last'.op = "add_node" /\ last'.existed)
        => /\ NodesDataAt(kg', last'.id).type = last'.type
           /\ NodesDataAt(kg', last'.id).properties = last'.properties
           /\ graph_data_node(kg', last'.id).type = last'.type
           /\ graph_data_node(kg', last'.id).properties = last'.properties
    ]_vars

\* C7: add_node is idempotent: a second call with the same arguments leaves
\* the store as the first call left it, get_node_count() included, and the
\* stored property bag (nodes_data, which to_dict reports) is the bag of the
\* latest call.
C7_AddNodeIdempotent ==
  [][ last'.op = "add_node"
        => /\ NodesDataAt(kg', last'.id).properties = last'.properties
           /\ (last'.again
                 => /\ kg' = kg
                    /\ get_node_count(kg') = get_node_count(kg)
                    /\ get_graph_data(kg') = get_graph_data(kg)
                    /\ to_dict(kg') = to_dict(kg))
    ]_vars

\* The second of two equal add_node calls, on a node that other keys had
\* been given before.
C7_Witness ==
  /\ last.op = "add_node" /\ last.again
  /\ kg.graph.attr[last.id].props # last.properties

\* C8: the stored properties are a copy of the caller's bag: what the caller
\* does later to the dict it passed to add_node or load_from_dict, or to the
\* structure to_dict() returned, changes neither what to_dict() nor what
\* get_graph_data() reports.
C8_StoredStateIsACopy ==
  [][ last'.op \in {"caller_mutates_bag", "caller_mutates_snapshot"}
        => /\ to_dict(kg') = to_dict(kg)
           /\ get_graph_data(kg') = get_graph_data(kg) ]_vars

\* C9: requests are serialized over the whole node+edge state, so no read
\* sees a mutation half done: what a read reports of the graph engine and
\* of nodes_data / edges_data agrees, as it does between any two calls.
C9_ReadsSeeNoIntermediateState ==
  obs.op = "verify"
    => /\ Range(obs.all_nodes) = Range(obs.nodes_data_keys)
       /\ obs.edge_count = obs.edges_data_count

\* The id of a node entry of a snapshot ('id', or the legacy 'node_id'),
\* Empty when it has none.
EntryId(e) ==
  IF "id" \in DOMAIN e /\ e.id \notin {None, Empty} THEN e.id
  ELSE IF "node_id" \in DOMAIN e /\ e.node_id # None THEN e.node_id
  ELSE Empty

\* What load_from_dict(data) is to leave in store k: the nodes of data that
\* have a non-empty id, and the edges of data with both endpoints among
\* them, each pair with the relationship and weight of its last entry.
LoadedAsStated(k, data) ==
  LET ns    == data.nodes
      es    == data.edges
      ids   == { EntryId(ns[i]) : i \in DOMAIN ns } \ {Empty}
      good  == { j \in DOMAIN es :
                   /\ "source" \in DOMAIN es[j] /\ "target" \in DOMAIN es[j]
                   /\ es[j].source \in ids /\ es[j].target \in ids }
      pairs == { << es[j].source, es[j].target >> : j \in good }
      final(p) == CHOOSE j \in good :
                    /\ << es[j].source, es[j].target >> = p
                    /\ \A l \in good : << es[l].source, es[l].target >> = p => l <= j
      entry(p) == [ source |-> p[1], target |-> p[2],
                    relationship |-> Get(es[final(p)], "relationship", "related_to"),
                    weight |-> Get(es[final(p)], "weight", 1) ]
  IN  /\ NodeSet(k.graph) = ids
      /\ NodesDataKeys(k) = ids
      /\ EdgeSet(k.graph) = pairs
      /\ \A p \in pairs :
           k.graph.eattr[p] = [relationship |-> entry(p).relationship,
                               weight |-> entry(p).weight]
      /\ Range(k.edges_data) = { entry(p) : p \in pairs }
      /\ Len(k.edges_data) = Cardinality(pairs)

\* C10: load_from_dict(data) discards what the store held, loads the nodes
\* before the edges and skips, without raising, every edge entry with an
\* endpoint that is not among the loaded nodes: the store then holds exactly
\* the nodes of data with a non-empty id and exactly the edges of data with
\* both endpoints among them, a repeated pair as its last entry has it.
C10_LoadResult ==
  last.op \in {"load_from_dict", "restore_same", "restore_fresh"}
    => /\ ~last.raised
       /\ LoadedAsStated(kg, last.data)

\* The part of C10 that the code keeps: data is an object of its own, not
\* the to_dict() result of the store that loads it.
C10_LoadResultDetached ==
  last.op \in {"load_from_dict", "restore_fresh"}
    => /\ ~last.raised
       /\ LoadedAsStated(kg, last.data)

\* A load into a store that was not empty, of a snapshot with a node entry
\* and an edge entry that do not make it into the store.
C10_Witness ==
  /\ last.op = "load_from_dict" /\ last.before > 0
  /\ get_edge_count(kg) > 0
  /\ Len(last.data.nodes) > get_node_count(kg)
  /\ Len(last.data.edges) > get_edge_count(kg)

\* Every recommendation a strategy has for the store: a node with inbound
\* 'prerequisite' edges, a node of degree > 0, a node of centrality > 0.
Candidates(k) ==
  LET G == k.graph
  IN  Range(prerequisite_recs(k, G.node))
      \cup { [node |-> n, score |-> GraphDegree(G, n) * 5, type |-> "connectivity"] :
               n \in { m \in NodeSet(G) : GraphDegree(G, m) > 0 } }
      \cup { [node |-> n, score |-> betweenness_x100(G, n), type |-> "bridging"] :
               n \in { m \in NodeSet(G) : betweenness_x100(G, m) > 0 } }

\* C11: get_recommendations(limit) returns the limit highest-scoring of all
\* the candidates of the three strategies, one entry per node: no candidate
\* node is missing from a result that has an entry of a strictly lower score
\* than the node's best candidate score.
C11_TopOfAllCandidates ==
  last.op = "get_recommendations"
    => \A c \in Candidates(kg) :
         (\A i \in DOMAIN last.result : last.result[i].node # c.node)
           => \A i \in DOMAIN last.result : last.result[i].score >= c.score

\* C11 holds of what is left of the candidates once every strategy has cut
\* its own list to limit entries: the result is the top of those.
C11_TopOfTruncatedLists ==
  last.op = "get_recommendations"
    => \A c \in Range(recommendations_of(kg, last.limit, last.order)) :
         (\A i \in DOMAIN last.result : last.result[i].node # c.node)
           => \A i \in DOMAIN last.result : last.result[i].score >= c.score

\* C12: the list get_recommendations(limit) returns, limit >= 0, has at most
\* limit entries, no node id twice, scores that never increase, and only
\* entries that name a node of the store and have a score above 0.
C12_ResultWellFormed ==
  last.op = "get_recommendations"
    => LET r == last.result
       IN  /\ Len(r) <= last.limit
           /\ \A i, j \in DOMAIN r : i # j => r[i].node # r[j].node
           /\ \A i, j \in DOMAIN r : i < j => r[i].score >= r[j].score
           /\ \A i \in DOMAIN r : r[i].node \in NodeSet(kg.graph) /\ r[i].score > 0

\* A full result of two entries, one of them for a node that two strategies
\* propose.
C12_Witness ==
  /\ last.op = "get_recommendations"
  /\ Len(last.result) = last.limit /\ last.limit >= 2
  /\ \E i \in DOMAIN last.result :
       Cardinality({ c \in Range(recommendations_of(kg, last.limit, last.order)) :
                       c.node = last.result[i].node }) >= 2

\* C13: get_recommendations never raises; when the centrality computation of
\* the bridging strategy raises, the call returns what the other two
\* strategies give, deduplicated and sorted.
C13_NeverRaises ==
  last.op = "get_recommendations"
    => /\ ~last.raised
       /\ "centrality" \in DOMAIN last
            => last.result = top_recs(unique_recs(last.others, << >>), last.limit)

\* The nodes and edges of the example data, as load_data adds them.
IsExample(k) ==
  /\ k.graph.node = << "Python", "Flask", "Graph Theory" >>
  /\ EdgeSet(k.graph) = { << "Python", "Flask" >>, << "Python", "Graph Theory" >> }
  /\ k.graph.eattr[<< "Python", "Flask" >>].relationship = "prerequisite"
  /\ k.graph.eattr[<< "Python", "Graph Theory" >>].relationship = "related_to"

\* C14: with limit at least the number of nodes, every node with k >= 1
\* inbound 'prerequisite' edges is in get_recommendations(limit) with a score
\* of at least 10*k; get_most_connected_nodes(1) returns a node of maximum
\* degree; on the example data this is Flask, 'prerequisite', 10 and Python
\* with 2 connections.
C14_PrerequisitesAndTopNode ==
  LET G == kg.graph
      PrereqIn(n) == { e \in EdgeSet(G) :
                         e[2] = n /\ Get(G.eattr[e], "relationship", None) = "prerequisite" }
      top == get_most_connected_nodes(kg, 1)
  IN  /\ (last.op = "get_recommendations" /\ last.limit >= get_node_count(kg))
           => \A n \in NodeSet(G) :
                PrereqIn(n) # {}
                  => \E i \in DOMAIN last.result :
                       /\ last.result[i].node = n
                       /\ last.result[i].score >= 10 * Cardinality(PrereqIn(n))
      /\ get_node_count(kg) > 0
           => /\ Len(top) = 1
              /\ top[1].connections = GraphDegree(G, top[1].node)
              /\ \A n \in NodeSet(G) : GraphDegree(G, n) <= top[1].connections
      /\ IsExample(kg)
           => /\ \A order \in SetOrders(NodeSet(G)) :
                   [node |-> "Flask", score |-> 10, type |-> "prerequisite"]
                     \in Range(get_recommendations(kg, 5, order))
              /\ top = << [node |-> "Python", connections |-> 2] >>

\* A node with two prerequisites in the result of a call whose limit is the
\* number of nodes.
C14_Witness ==
  /\ last.op = "get_recommendations" /\ last.limit = get_node_count(kg)
  /\ \E i \in DOMAIN last.result :
       /\ last.result[i].type = "prerequisite" /\ last.result[i].score = 20

\* The example data, queried.
C14_WitnessExample ==
  /\ IsExample(kg)
  /\ last.op = "get_recommendations" /\ last.limit = 3

\* The walks of G from source to target that visit len nodes (nodes may repeat).
Walks(G, source, target, len) ==
  { w \in [1..len -> NodeSet(G)] :
      /\ w[1] = source /\ w[len] = target
      /\ \A i \in 1..(len - 1) : << w[i], w[i + 1] >> \in EdgeSet(G) }

\* C15: find_path(s, t) returns a directed path from s to t with the fewest
\* hops, [s] for s = t when s is a node, the 'no path' value when both are
\* nodes and t cannot be reached, and raises only when s or t is no node.
C15_FindPath ==
  last.op = "find_path"
    => LET G == kg.graph
           s == last.source
           t == last.target
           r == last.result
           reachable == \E len \in 1..Len(G.node) : Walks(G, s, t, len) # {}
       IN  /\ r.kind = "raise" => (s \notin NodeSet(G) \/ t \notin NodeSet(G))
           /\ (s \in NodeSet(G) /\ t \in NodeSet(G) /\ ~reachable) => r.kind = "none"
           /\ r.kind = "none" => ~reachable
           /\ (s = t /\ s \in NodeSet(G)) => (r.kind = "path" /\ r.path = << s >>)
           /\ r.kind = "path"
                => /\ r.path \in Walks(G, s, t, Len(r.path))
                   /\ \A len \in 1..(Len(r.path) - 1) : Walks(G, s, t, len) = {}

\* A path of two hops between two nodes that have no edge between them.
C15_Witness ==
  /\ last.op = "find_path" /\ last.result.kind = "path"
  /\ Len(last.result.path) = 3

\* Where node n stands in the sequence seq.
IndexOf(seq, n) == CHOOSE i \in DOMAIN seq : seq[i] = n

\* C16: get_most_connected_nodes(n) returns the min(n, number of nodes) nodes
\* of highest in-degree + out-degree, highest first, nodes of equal degree in
\* the order they were inserted into the store (add_node of a new id puts it
\* last, anything else keeps the order of the nodes that stay); two calls in
\* the same state return the same.
C16_MostConnectedOrder ==
  [][ LET before == kg.graph.node
          order == kg'.graph.node
          Stays(x) == x # last'.id
      IN  /\ last'.op = "add_node"
               => order = IF last'.existed THEN before ELSE Append(before, last'.id)
          /\ last'.op = "remove_node" => order = SelectSeq(before, Stays)
          /\ last'.op = "load_example" => order = << "Python", "Flask", "Graph Theory" >>
          /\ last'.op \notin {"add_node", "remove_node", "load_example"} => order = before
          /\ last'.op = "get_most_connected_nodes"
               => LET r == last'.result
                      n == last'.n
                      Deg(x) == Cardinality({ e \in EdgeSet(kg'.graph) : e[1] = x })
                                + Cardinality({ e \in EdgeSet(kg'.graph) : e[2] = x })
                  IN  /\ Len(r) = IF n < Len(order) THEN n ELSE Len(order)
                      /\ \A i \in DOMAIN r :
                           r[i].node \in Range(order) /\ r[i].connections = Deg(r[i].node)
                      /\ \A i, j \in DOMAIN r :
                           i < j => \/ r[i].connections > r[j].connections
                                    \/ /\ r[i].connections = r[j].connections
                                       /\ IndexOf(order, r[i].node) < IndexOf(order, r[j].node)
                      /\ \A x \in Range(order) \ { r[i].node : i \in DOMAIN r } :
                           \A i \in DOMAIN r : Deg(x) <= r[i].connections
          /\ (last'.op = "get_most_connected_nodes" /\ last.op = "get_most_connected_nodes"
                /\ last'.n = last.n)
               => last'.result = last.result ]_vars

\* Two nodes of the same degree above 0 at the head of one result.
C16_Witness ==
  /\ last.op = "get_most_connected_nodes"
  /\ Len(last.result) >= 2
  /\ last.result[1].connections = last.result[2].connections
  /\ last.result[1].connections > 0

\* C17: remove_node(x) for an id that is no node raises nothing and changes
\* nothing; after remove_node(x), x a node or not, get_neighbors(x) returns
\* the empty list and raises nothing.
C17_RemoveAbsentAndNeighbors ==
  [][ /\ last'.op = "remove_node"
           => /\ ~last'.raised
              /\ ~last'.existed => kg' = kg
              /\ get_neighbors(kg', last'.id) = << >>
      /\ (last'.op = "get_neighbors" /\ last.op = "remove_node" /\ last'.id = last.id)
           => (last'.result = << >> /\ ~last'.raised) ]_vars

\* remove_node has just removed a node that had an edge.
C17_Witness ==
  /\ last.op = "remove_node" /\ last.existed /\ last.dropped >= 1
  /\ get_node_count(kg) >= 1

\* The queries.
ReadOps ==
  { "get_graph_data", "export_to_cytoscape", "get_node_positions",
    "get_recommendations", "get_node_count", "get_edge_count", "get_node_types",
    "get_most_connected_nodes", "get_neighbors", "find_path", "get_subgraph",
    "to_dict" }

\* C19: every query leaves the node set, the edge set, nodes_data and
\* edges_data as they were before the call, whatever the layout name.
C19_ReadsArePure ==
  [][ last'.op \in ReadOps => kg' = kg ]_vars

\* A layout under a name that is not known, computed on a store with an edge.
C19_Witness ==
  /\ last.op = "get_node_positions" /\ last.layout = "grid"
  /\ get_edge_count(kg) >= 1

\* The entries of edges_data for pairs other than (source, target), in order.
OtherEntries(ed, source, target) ==
  LET Other(e) == ~(e.source = source /\ e.target = target)
  IN  SelectSeq(ed, Other)

\* C20: add_node leaves the edges, their attributes and every other node as
\* they are; add_edge(s, t) leaves the nodes and every edge other than (s, t)
\* as they are; remove_node(x) leaves every other node and every edge not
\* incident to x as they are and removes every edge incident to x from the
\* graph engine and from edges_data.
C20_MutatorsFrame ==
  [][ LET G == kg.graph
          H == kg'.graph
      IN  /\ last'.op = "add_node"
               => /\ EdgeSet(H) = EdgeSet(G) /\ H.eattr = G.eattr
                  /\ \A m \in NodeSet(G) : H.succ[m] = G.succ[m]
                  /\ kg'.edges_data = kg.edges_data
                  /\ NodeSet(H) = NodeSet(G) \cup {last'.id}
                  /\ \A m \in NodeSet(G) \ {last'.id} : H.attr[m] = G.attr[m]
                  /\ \A i \in DOMAIN kg.nodes_data :
                       kg.nodes_data[i].id # last'.id => kg'.nodes_data[i] = kg.nodes_data[i]
          /\ last'.op = "add_edge"
               => /\ H.node = G.node /\ H.attr = G.attr
                  /\ kg'.nodes_data = kg.nodes_data
                  /\ EdgeSet(H) \ {<< last'.source, last'.target >>}
                       = EdgeSet(G) \ {<< last'.source, last'.target >>}
                  /\ \A e \in EdgeSet(G) \ {<< last'.source, last'.target >>} :
                       H.eattr[e] = G.eattr[e]
                  /\ OtherEntries(kg'.edges_data, last'.source, last'.target)
                       = OtherEntries(kg.edges_data, last'.source, last'.target)
          /\ last'.op = "remove_node"
               => LET x == last'.id
                      Apart(e) == e.source # x /\ e.target # x
                      NotX(n) == n.id # x
                  IN  /\ NodeSet(H) = NodeSet(G) \ {x}
                      /\ \A m \in NodeSet(H) : H.attr[m] = G.attr[m]
                      /\ kg'.nodes_data = SelectSeq(kg.nodes_data, NotX)
                      /\ EdgeSet(H) = { e \in EdgeSet(G) : e[1] # x /\ e[2] # x }
                      /\ \A e \in EdgeSet(H) : H.eattr[e] = G.eattr[e]
                      /\ kg'.edges_data = SelectSeq(kg.edges_data, Apart) ]_vars

\* add_node on a node that exists and has an edge.
C20_Witness ==
  /\ last.op = "add_node" /\ last.existed
  /\ \E e \in EdgeSet(kg.graph) : e[1] = last.id \/ e[2] = last.id

\* C18: in the add-node and add-edge handlers save_data runs after the
\* mutation and only then (what it writes holds the new node or edge; a
\* rejected request writes nothing), and whatever its write attempts do,
\* the node or edge added is in the store when the handler returns.
C18_SaveAfterMutationNoRollback ==
  [][ last'.op \in {"POST /api/nodes", "POST /api/edges"}
        => LET ok == { i \in DOMAIN last'.attempts : last'.attempts[i].outcome = "ok" }
           IN  /\ last'.called
                    => /\ last'.status = 200
                       /\ last'.op = "POST /api/nodes"
                            => /\ last'.data.id \in NodeSet(kg'.graph)
                               /\ last'.data.id \in NodesDataKeys(kg')
                       /\ last'.op = "POST /api/edges"
                            => /\ << last'.data.source, last'.data.target >> \in EdgeSet(kg'.graph)
                               /\ \E i \in DOMAIN kg'.edges_data :
                                    /\ kg'.edges_data[i].source = last'.data.source
                                    /\ kg'.edges_data[i].target = last'.data.target
                       /\ \A i \in ok :
                            FileAt(disk', last'.attempts[i].path) = Json(Detached(to_dict(kg')))
               /\ ~last'.called => (last'.attempts = << >> /\ disk' = disk)
               /\ last'.attempts # << >> => last'.could_save ]_vars

\* A handler has added a node while both write attempts failed.
C18_Witness ==
  /\ last.op = "POST /api/nodes" /\ last.status = 200
  /\ Len(last.attempts) = 2 /\ \A i \in DOMAIN last.attempts : last.attempts[i].outcome # "ok"
  /\ ~CAN_SAVE_TO_FILE
  /\ last.data.id \in NodeSet(kg.graph)

\* The edges of a store from a node to itself.
SelfLoops(k) == { e \in EdgeSet(k.graph) : e[1] = e[2] }

\* Nothing that store k0 holds is changed in store k1: every node of k0 has
\* its attributes and its nodes_data entry, every edge of k0 its attributes
\* and its edges_data entry.
OnlyInserted(k0, k1) ==
  /\ \A n \in NodeSet(k0.graph) :
       n \in NodeSet(k1.graph) /\ k1.graph.attr[n] = k0.graph.attr[n]
  /\ \A i \in DOMAIN k0.nodes_data :
       i \in DOMAIN k1.nodes_data /\ k1.nodes_data[i] = k0.nodes_data[i]
  /\ \A e \in EdgeSet(k0.graph) :
       e \in EdgeSet(k1.graph) /\ k1.graph.eattr[e] = k0.graph.eattr[e]
  /\ \A i \in DOMAIN k0.edges_data :
       i \in DOMAIN k1.edges_data /\ k1.edges_data[i] = k0.edges_data[i]

\* The request is one the handlers turn down, judged on store k: a node id
\* that k has, an edge with source == target, with an endpoint k has not,
\* or for a pair that has an edge in k.
TurnedDown(k, op, data) ==
  \/ /\ op = "POST /api/nodes"
     /\ Truthy(Get(data, "id", None)) /\ Get(data, "id", None) \in NodeSet(k.graph)
  \/ /\ op = "POST /api/edges"
     /\ Truthy(Get(data, "source", None)) /\ Truthy(Get(data, "target", None))
     /\ \/ data.source = data.target
        \/ data.source \notin NodeSet(k.graph) \/ data.target \notin NodeSet(k.graph)
        \/ << data.source, data.target >> \in EdgeSet(k.graph)

\* C21 (as stated): a POST /api/nodes with an id the store has, and a POST
\* /api/edges with source == target, a missing endpoint or a pair that has
\* an edge, return an error and leave the store unchanged; so no request
\* creates a self-loop in a store that has none or changes a node or an edge
\* the store has.
C21_HandlersOnlyInsert ==
  [][ last'.op \in {"POST /api/nodes", "POST /api/edges", "GET /api/graph"}
        => /\ (last'.op # "GET /api/graph" /\ TurnedDown(kg, last'.op, last'.data))
                => (last'.status = 400 /\ kg' = kg)
           /\ SelfLoops(kg) = {} => SelfLoops(kg') = {}
           /\ OnlyInserted(kg, kg') ]_vars

\* C21 (amended): the same, of the store the handler works on. A request
\* that finds the store empty first loads the data file or the example data
\* (ensure_data_loaded); the request is judged on the store so loaded and
\* leaves that store unchanged when it is turned down, and the only
\* self-loops a request adds to the store are those of a data file it loads.
C21_HandlersOnlyInsertAfterLoad ==
  [][ last'.op \in {"POST /api/nodes", "POST /api/edges", "GET /api/graph"}
        => LET k0 == ensure_data_loaded(kg, DATA_FILE, disk).kg
           IN  /\ get_node_count(kg) > 0 => k0 = kg
               /\ (last'.op # "GET /api/graph" /\ TurnedDown(k0, last'.op, last'.data))
                    => (last'.status = 400 /\ ~last'.called /\ kg' = k0)
               /\ SelfLoops(kg') = SelfLoops(k0)
               /\ OnlyInserted(k0, kg')
               /\ OnlyInserted(kg, kg') ]_vars

\* An edge from a node of the store to itself has been turned down.
C21_Witness ==
  /\ last.op = "POST /api/edges" /\ last.status = 400
  /\ "target" \in DOMAIN last.data /\ last.data.source = last.data.target
  /\ last.data.source \in NodeSet(kg.graph)
  /\ get_edge_count(kg) >= 1

\* C22: once save_data has set CAN_SAVE_TO_FILE to False it stays False and
\* no later save_data attempts a write; once DATA_FILE names the /tmp
\* location it keeps naming it; and the flag goes to False only in a
\* save_data whose last attempt was a write to the /tmp location that failed.
C22_FallbackMonotone ==
  [][ /\ ~CAN_SAVE_TO_FILE
           => /\ ~CAN_SAVE_TO_FILE'
              /\ disk' = disk
              /\ last'.op \in {"POST /api/nodes", "POST /api/edges"}
                   => last'.attempts = << >>
      /\ DATA_FILE = TMP_DATA_FILE => DATA_FILE' = TMP_DATA_FILE
      /\ (CAN_SAVE_TO_FILE /\ ~CAN_SAVE_TO_FILE')
           => /\ last'.op \in {"POST /api/nodes", "POST /api/edges"}
              /\ last'.attempts # << >>
              /\ last'.attempts[Len(last'.attempts)].path = TMP_DATA_FILE
              /\ last'.attempts[Len(last'.attempts)].outcome # "ok"
              /\ \/ Len(last'.attempts) = 2
                 \/ ensure_data_loaded(kg, DATA_FILE, disk).DATA_FILE = TMP_DATA_FILE ]_vars

\* A handler has added a node or an edge with saving disabled: save_data
\* made no attempt.
C22_Witness ==
  /\ last.op \in {"POST /api/nodes", "POST /api/edges"}
  /\ last.called /\ ~last.could_save /\ last.attempts = << >>
  /\ ~CAN_SAVE_TO_FILE /\ DATA_FILE = TMP_DATA_FILE


====
